---- MODULE Spec2Model ----
(***************************************************************************)
(* A state-machine model of the concurrency primitives of go-demo         *)
(* (package concurrency): WorkerPool, Pipeline, FanOut/FanIn,              *)
(* RateLimiter and Broadcast.                                              *)
(*                                                                         *)
(* Go channels are modelled by their buffer (a sequence), their capacity  *)
(* and a closed flag.  A goroutine is modelled by its position (pc) and   *)
(* its local variables.  A Go select with several ready cases chooses one *)
(* of them nondeterministically, as the Go runtime does.  An unrecovered  *)
(* panic ends the process: no action is enabled once panicked is TRUE.    *)
(***************************************************************************)
EXTENDS Integers, Sequences, FiniteSets, TLC

\* ---------------------------------------------------------------- bounds
MaxWorkers == 2
MaxJobs == 3
MaxStages == 2
MaxInput == 5
MaxFan == 2
MaxItems == 2
MaxRate == 2
MaxTicks == 2
MaxCallers == 2
MaxWaits == 3
MaxSubs == 2
MaxMsgs == 2
MaxSenders == 2

\* ------------------------------------------------------------- variables
VARIABLES
    \* --- WorkerPool (type WorkerPool struct)
    workers,        \* wp.workers: the configured pool size W
    jobs,           \* wp.jobs: buffer of the jobs channel (job ids, FIFO)
    jobsClosed,     \* close(wp.jobs) has happened
    results,        \* wp.results: buffer of the results channel
    resultsClosed,  \* close(wp.results) has happened
    wg,             \* wp.wg: the WaitGroup counter
    cancelled,      \* ctx.Done() is closed (the cancellation signal fired)
    wpc,            \* position of each runWorker goroutine
    wjob,           \* the job a runWorker goroutine holds (0: none)
    werr,           \* the outcome a runWorker goroutine is about to publish
    callerPc,       \* position of the goroutine that drives the pool
    started,        \* Start has been called
    submitted,      \* number of Submit calls made so far (job ids 1..submitted)
    closeReturned,  \* Close has returned
    panicked,       \* the process died of an unrecovered panic
    readerMode,     \* how the caller consumes Results()
    received,       \* the outcomes read from Results() so far, in order
    resultsSeenClosed, \* the reader's range over Results() has ended
    \* --- history of the worker-function invocations (observation only)
    invoked,        \* invoked[j]: number of invocations of the worker function on job j
    returned,       \* returned[j]: the outcome the invocation on job j returned
    lateReturn,     \* some invocation returned after cancellation had fired
    \* --- Pipeline (type Pipeline struct) and the goroutines around it
    stages,         \* p.stages: the stage functions, in list order
    inputVals,      \* the values the producer goroutine sends on the input channel
    inputCloses,    \* the producer closes the input channel after its last value
    executed,       \* Execute has returned
    goroutines,     \* the goroutine of each stage called so far: in, out, fn, pc, val
    pipeOut,        \* the channel Execute returned
    chCloses,       \* chCloses[c]: number of close(c) calls on channel c
    prodNext,       \* index of the next value the producer sends
    prodPc,         \* position of the producer goroutine
    collected,      \* the values the consumer has read from the returned channel
    consPc,         \* position of the consumer (for result := range output)
    \* --- FanOut / FanIn and the goroutines around them
    foWorkers,      \* the workers argument of FanOut
    foItems,        \* the values the producer goroutine sends on the input channel
    foInputCloses,  \* the producer closes the input channel after its last value
    foNext,         \* index of the next value the producer sends
    foInputClosed,  \* close(input) has happened
    foPhase,        \* which of FanOut and FanIn the caller has called
    fw,             \* fw[w]: the goroutine of worker(ctx, input, fn) number w: pc, item, val
    outCloses,      \* outCloses[w]: number of close(output) calls on outputs[w]
    mx,             \* mx[m]: the multiplex goroutine reading inputs[m]: pc, val
    fiWg,           \* the WaitGroup of FanIn
    closerPc,       \* position of the goroutine func() { wg.Wait(); close(output) }
    mergedCloses,   \* number of close(output) calls on the merged channel
    merged,         \* the values the consumer has read from the merged channel, in order
    fcPc,           \* position of the consumer (for val := range result)
    transformed,    \* transformed[k]: number of fn calls on the k-th input value
    \* --- RateLimiter and the goroutines calling it
    rlCap,          \* requestsPerSecond: cap(rl.tokens)
    tokens,         \* len(rl.tokens)
    rlDoneCloses,   \* number of close(rl.done) calls that went through
    rlPanicked,     \* a goroutine panicked (close of closed channel)
    refillPc,       \* position of the goroutine rl.refill()
    tickPending,    \* ticker.C holds a tick
    ticks,          \* number of ticks the ticker has fired
    wt,             \* wt[c]: the Wait call of caller c: pc, ctxDone, afterStop
    okCount,        \* number of Wait calls that returned nil
    errCount,       \* number of Wait calls that returned ctx.Err()
    \* --- Broadcast and the goroutines calling it
    bcChans,        \* the channels made by Subscribe, in order: id, cap, log, taken, closes
    registry,       \* b.subscribers: registry[id] is the index of id's channel, 0 if none
    sd,             \* sd[s]: the Send call of sender s: pc, msg, snap, todo, outcome, ...
    bcSent,         \* number of Send calls made
    bcShut,         \* Close has been called
    regChanged,     \* Subscribe, Unsubscribe or Close ran after the first Send call
    bcPanicked      \* a goroutine panicked (send on or close of a closed channel)

wpVars == <<workers, jobs, jobsClosed, results, resultsClosed, wg,
            wpc, wjob, werr, callerPc, started, submitted, closeReturned,
            panicked, readerMode, received, resultsSeenClosed, invoked, returned,
                   lateReturn>>

plVars == <<stages, inputVals, inputCloses, executed, goroutines, pipeOut, chCloses,
            prodNext, prodPc, collected, consPc>>

foVars == <<foWorkers, foItems, foInputCloses, foNext, foInputClosed, foPhase,
            fw, outCloses, mx, fiWg, closerPc, mergedCloses, merged, fcPc,
            transformed>>

rlVars == <<rlCap, tokens, rlDoneCloses, rlPanicked, refillPc, tickPending, ticks,
            wt, okCount, errCount>>

bcVars == <<bcChans, registry, sd, bcSent, bcShut, regChanged, bcPanicked>>

\* what the worker pool's operations leave alone
notWP == <<plVars, foVars, rlVars, bcVars>>

\* what the pipeline's goroutines leave alone
notPL == <<wpVars, foVars, rlVars, bcVars>>

\* what FanOut, FanIn and their goroutines leave alone
notFO == <<wpVars, plVars, rlVars, bcVars>>

\* what the rate limiter's operations leave alone
notRL == <<wpVars, plVars, foVars, bcVars>>

\* what the broadcaster's operations leave alone
notBC == <<wpVars, plVars, foVars, rlVars>>

vars == <<cancelled, wpVars, plVars, foVars, rlVars, bcVars>>

\* --------------------------------------------------------------- helpers
WorkerIds == 0 .. (MaxWorkers - 1)
JobIds == 1 .. MaxJobs
Outcomes == {"nil", "err"}

\* a capacity off by one: make(chan, workers*2+1)
ChanCapOneMore(w) == w * 2 + 1

\* workers*2: the capacity of both channels of the pool
ChanCap(w) == w * 2

\* a loop bound off by one: for i := 0; i <= wp.workers; i++
LaunchedOneMore(w) == 0 .. w

\* the goroutines Start launches: ids 0 .. workers-1
Launched(w) == 0 .. (w - 1)

\* number of worker-function invocations in progress
Running == Cardinality({i \in WorkerIds : wpc[i] = "work"})

RECURSIVE CountJob(_, _)
CountJob(s, j) ==
    IF s = <<>> THEN 0
    ELSE (IF Head(s).job = j THEN 1 ELSE 0) + CountJob(Tail(s), j)

RECURSIVE CountErr(_)
CountErr(s) ==
    IF s = <<>> THEN 0
    ELSE (IF Head(s).err = "err" THEN 1 ELSE 0) + CountErr(Tail(s))

\* everything that has appeared on the results stream, in order
Published == received \o results

\* ------------------------------------------------------------------ Init
\* NewWorkerPool(workers): both channels empty and open, no goroutine yet
NewWorkerPool(w) ==
    /\ workers = w
    /\ jobs = <<>>
    /\ jobsClosed = FALSE
    /\ results = <<>>
    /\ resultsClosed = FALSE
    /\ wg = 0
    /\ wpc = [i \in WorkerIds |-> "idle"]
    /\ wjob = [i \in WorkerIds |-> 0]
    /\ werr = [i \in WorkerIds |-> "nil"]
    /\ callerPc = "ready"
    /\ started = FALSE
    /\ submitted = 0
    /\ closeReturned = FALSE
    /\ panicked = FALSE
    /\ received = <<>>
    /\ resultsSeenClosed = FALSE
    /\ invoked = [j \in JobIds |-> 0]
    /\ returned = [j \in JobIds |-> "none"]
    /\ lateReturn = FALSE

\* a pool of any size W >= 1, its results read concurrently or after Close
WPInit ==
    /\ \E w \in 1 .. MaxWorkers : NewWorkerPool(w)
    /\ readerMode \in {"concurrent", "afterClose"}

\* the pool of a run that does not use it
WPUnused == NewWorkerPool(1) /\ readerMode = "concurrent"

\* ------------------------------------------------------ WorkerPool.Start
\* for i := 0; i < wp.workers; i++ { wp.wg.Add(1); go wp.runWorker(ctx, i, worker) }
Start ==
    /\ ~panicked
    /\ UNCHANGED notWP
    /\ callerPc = "ready"
    /\ ~started
    /\ started' = TRUE
    /\ wg' = wg + Cardinality(Launched(workers))
    /\ wpc' = [i \in WorkerIds |-> IF i \in Launched(workers) THEN "select" ELSE wpc[i]]
    /\ UNCHANGED <<workers, jobs, jobsClosed, results, resultsClosed, cancelled,
                   wjob, werr, callerPc, submitted, closeReturned, panicked,
                   readerMode, received, resultsSeenClosed, invoked, returned,
                   lateReturn>>

\* -------------------------------------------------- WorkerPool.runWorker
\* select: case job, ok := <-wp.jobs with ok: the worker function is invoked
WorkerDequeue(i) ==
    /\ ~panicked
    /\ UNCHANGED notWP
    /\ wpc[i] = "select"
    /\ jobs # <<>>
    /\ jobs' = Tail(jobs)
    /\ wjob' = [wjob EXCEPT ![i] = Head(jobs)]
    /\ wpc' = [wpc EXCEPT ![i] = "work"]
    /\ invoked' = [invoked EXCEPT ![Head(jobs)] = @ + 1]
    /\ UNCHANGED <<workers, jobsClosed, results, resultsClosed, wg, cancelled,
                   werr, callerPc, started, submitted, closeReturned, panicked,
                   readerMode, received, resultsSeenClosed, returned,
                   lateReturn>>

\* select: case <-ctx.Done(): return (defer wp.wg.Done())
WorkerExitCancelled(i) ==
    /\ ~panicked
    /\ UNCHANGED notWP
    /\ wpc[i] = "select"
    /\ cancelled
    /\ wpc' = [wpc EXCEPT ![i] = "done"]
    /\ wg' = wg - 1
    /\ UNCHANGED <<workers, jobs, jobsClosed, results, resultsClosed, cancelled,
                   wjob, werr, callerPc, started, submitted, closeReturned,
                   panicked, readerMode, received, resultsSeenClosed, invoked,
                   returned,
                   lateReturn>>

\* select: case job, ok := <-wp.jobs with !ok (closed and drained): return
WorkerExitClosed(i) ==
    /\ ~panicked
    /\ UNCHANGED notWP
    /\ wpc[i] = "select"
    /\ jobsClosed
    /\ jobs = <<>>
    /\ wpc' = [wpc EXCEPT ![i] = "done"]
    /\ wg' = wg - 1
    /\ UNCHANGED <<workers, jobs, jobsClosed, results, resultsClosed, cancelled,
                   wjob, werr, callerPc, started, submitted, closeReturned,
                   panicked, readerMode, received, resultsSeenClosed, invoked,
                   returned,
                   lateReturn>>

\* err := worker(id, job): the invocation returns an error or nil
WorkerReturn(i) ==
    /\ ~panicked
    /\ UNCHANGED notWP
    /\ wpc[i] = "work"
    /\ \E e \in Outcomes :
          /\ werr' = [werr EXCEPT ![i] = e]
          /\ returned' = [returned EXCEPT ![wjob[i]] = e]
    /\ wpc' = [wpc EXCEPT ![i] = "send"]
    /\ lateReturn' = (lateReturn \/ cancelled)
    /\ UNCHANGED <<workers, jobs, jobsClosed, results, resultsClosed, wg,
                   cancelled, wjob, callerPc, started, submitted, closeReturned,
                   panicked, readerMode, received, resultsSeenClosed, invoked>>

\* the outcome is swallowed: wp.results <- nil
ResultSwallowed(i) == [job |-> wjob[i], err |-> "nil"]

\* the value wp.results <- err puts on the results stream
ResultOf(i) == [job |-> wjob[i], err |-> werr[i]]

\* wp.results <- err: blocks while the buffer is full, panics on a closed channel
WorkerPublish(i) ==
    /\ ~panicked
    /\ UNCHANGED notWP
    /\ wpc[i] = "send"
    /\ IF resultsClosed
       THEN /\ panicked' = TRUE
            /\ UNCHANGED <<results, wpc, wjob>>
       ELSE /\ Len(results) < ChanCap(workers)
            /\ results' = Append(results, ResultOf(i))
            /\ wpc' = [wpc EXCEPT ![i] = "select"]
            /\ wjob' = [wjob EXCEPT ![i] = 0]
            /\ UNCHANGED panicked
    /\ UNCHANGED <<workers, jobs, jobsClosed, resultsClosed, wg, cancelled,
                   werr, callerPc, started, submitted, closeReturned,
                   readerMode, received, resultsSeenClosed, invoked, returned,
                   lateReturn>>

\* ----------------------------------------------------- WorkerPool.Submit
\* the caller enters Submit(job) with the next job id
SubmitCall ==
    /\ ~panicked
    /\ UNCHANGED notWP
    /\ callerPc = "ready"
    /\ started
    /\ submitted < MaxJobs
    /\ submitted' = submitted + 1
    /\ callerPc' = "submit"
    /\ UNCHANGED <<workers, jobs, jobsClosed, results, resultsClosed, wg,
                   cancelled, wpc, wjob, werr, started, closeReturned, panicked,
                   readerMode, received, resultsSeenClosed, invoked, returned,
                   lateReturn>>

\* a Submit that does not fail on the closed queue but enqueues the job
SubmitSendOnClosed ==
    /\ ~panicked
    /\ UNCHANGED notWP
    /\ callerPc = "submit"
    /\ Len(jobs) < 2 * workers
    /\ jobs' = Append(jobs, submitted)
    /\ callerPc' = "ready"
    /\ UNCHANGED <<workers, jobsClosed, results, resultsClosed, wg, cancelled,
                   wpc, wjob, werr, started, submitted, closeReturned, panicked,
                   readerMode, received, resultsSeenClosed, invoked, returned,
                   lateReturn>>

\* the buffer of the channel has a free slot
CanSend(q, w) == Len(q) < ChanCap(w)

\* wp.jobs <- job: blocks while the buffer is full, panics on a closed channel
SubmitSend ==
    /\ ~panicked
    /\ UNCHANGED notWP
    /\ callerPc = "submit"
    /\ IF jobsClosed
       THEN /\ panicked' = TRUE
            /\ UNCHANGED <<jobs, callerPc>>
       ELSE /\ CanSend(jobs, workers)
            /\ jobs' = Append(jobs, submitted)
            /\ callerPc' = "ready"
            /\ UNCHANGED panicked
    /\ UNCHANGED <<workers, jobsClosed, results, resultsClosed, wg, cancelled,
                   wpc, wjob, werr, started, submitted, closeReturned,
                   readerMode, received, resultsSeenClosed, invoked, returned,
                   lateReturn>>

\* ------------------------------------------------------ WorkerPool.Close
\* close(wp.jobs), then the caller parks in wp.wg.Wait()
CloseCall ==
    /\ ~panicked
    /\ UNCHANGED notWP
    /\ callerPc = "ready"
    /\ started
    /\ IF jobsClosed
       THEN /\ panicked' = TRUE
            /\ UNCHANGED <<jobsClosed, callerPc>>
       ELSE /\ jobsClosed' = TRUE
            /\ callerPc' = "closeWait"
            /\ UNCHANGED panicked
    /\ UNCHANGED <<workers, jobs, results, resultsClosed, wg, cancelled, wpc,
                   wjob, werr, started, submitted, closeReturned, readerMode,
                   received, resultsSeenClosed, invoked, returned,
                   lateReturn>>

\* a Close that goes on while one worker is still running
WaitReturnsOneEarly(n) == n <= 1

\* Close: wp.wg.Wait() returns when the counter is zero
WaitReturns(n) == n = 0

\* wp.wg.Wait() returns when the counter is zero; then close(wp.results)
CloseReturn ==
    /\ ~panicked
    /\ UNCHANGED notWP
    /\ callerPc = "closeWait"
    /\ WaitReturns(wg)
    /\ resultsClosed' = TRUE
    /\ closeReturned' = TRUE
    /\ callerPc' = "ready"
    /\ UNCHANGED <<workers, jobs, jobsClosed, results, wg, cancelled, wpc, wjob,
                   werr, started, submitted, panicked, readerMode, received,
                   resultsSeenClosed, invoked, returned,
                   lateReturn>>

\* ---------------------------------------------------- WorkerPool.Results
\* the caller may read Results() now: from another goroutine at any time,
\* or from the driving goroutine once Close has returned
MayRead == readerMode = "concurrent" \/ closeReturned

\* for err := range wp.Results(): one value is received
ReadResult ==
    /\ ~panicked
    /\ UNCHANGED notWP
    /\ MayRead
    /\ results # <<>>
    /\ received' = Append(received, Head(results))
    /\ results' = Tail(results)
    /\ UNCHANGED <<workers, jobs, jobsClosed, resultsClosed, wg, cancelled, wpc,
                   wjob, werr, callerPc, started, submitted, closeReturned,
                   panicked, readerMode, resultsSeenClosed, invoked, returned,
                   lateReturn>>

\* for err := range wp.Results(): the channel is closed and drained, the loop ends
ReadClosed ==
    /\ ~panicked
    /\ UNCHANGED notWP
    /\ MayRead
    /\ results = <<>>
    /\ resultsClosed
    /\ ~resultsSeenClosed
    /\ resultsSeenClosed' = TRUE
    /\ UNCHANGED <<workers, jobs, jobsClosed, results, resultsClosed, wg,
                   cancelled, wpc, wjob, werr, callerPc, started, submitted,
                   closeReturned, panicked, readerMode, received, invoked,
                   returned,
                   lateReturn>>

\* ------------------------------------------------------------ context
\* cancel() or the deadline of the context: ctx.Done() is closed, once
Cancel ==
    /\ ~panicked
    /\ ~rlPanicked
    /\ ~bcPanicked
    /\ ~cancelled
    /\ cancelled' = TRUE
    /\ UNCHANGED <<wpVars, plVars, foVars, rlVars, bcVars>>

\* =============================================================== Pipeline
StageFns == {"double", "add10"}
Channels == 0 .. (MaxStages + 1)

\* the stage bodies of the tests and the demo: val.(int) * 2 and val.(int) + 10
Apply(fn, v) == IF fn = "double" THEN v * 2 ELSE v + 10

\* close(c) has happened
chClosed(c) == chCloses[c] > 0

\* NewPipeline(stages...) and the producer of the tests: for i := 1; i <= n; i++
NewPipeline(stgs, n) ==
    /\ stages = stgs
    /\ inputVals = [k \in 1 .. n |-> k]
    /\ executed = FALSE
    /\ goroutines = <<>>
    /\ pipeOut = 0
    /\ chCloses = [c \in Channels |-> 0]
    /\ prodNext = 1
    /\ prodPc = "send"
    /\ collected = <<>>
    /\ consPc = "recv"

StageLists == UNION {[1 .. k -> StageFns] : k \in 0 .. MaxStages}

\* the producer of the tests and the demo: defer close(input)
PLInit ==
    /\ \E stgs \in StageLists, n \in 0 .. MaxInput : NewPipeline(stgs, n)
    /\ inputCloses = TRUE

\* any input stream: one that is closed after its last value, or one that
\* stays open (Execute accepts any <-chan interface{})
PLInitAnyInput ==
    /\ \E stgs \in StageLists, n \in 0 .. MaxInput : NewPipeline(stgs, n)
    /\ inputCloses \in BOOLEAN

\* the pipeline of a run that does not use it
PLUnused == NewPipeline(<<>>, 0) /\ inputCloses = TRUE

\* every stage is handed the pipeline's input: out = stage(ctx, input)
StageCallOnInput(k, in) == [in |-> 0, out |-> k, fn |-> stages[k], pc |-> "recv", val |-> 0]

\* stage(ctx, out): output := make(chan interface{}); go func() {...}(); return output
\* The k-th stage call makes channel k (the input channel is channel 0).
StageCall(k, in) == [in |-> in, out |-> k, fn |-> stages[k], pc |-> "recv", val |-> 0]

\* out := input; for _, stage := range p.stages { out = stage(ctx, out) }; return out
RECURSIVE ExecuteLoop(_, _, _)
ExecuteLoop(k, out, gs) ==
    IF k > Len(stages) THEN [out |-> out, gs |-> gs]
    ELSE ExecuteLoop(k + 1, StageCall(k, out).out, Append(gs, StageCall(k, out)))

\* Pipeline.Execute(ctx, input)
Execute ==
    /\ ~executed
    /\ executed' = TRUE
    /\ goroutines' = ExecuteLoop(1, 0, <<>>).gs
    /\ pipeOut' = ExecuteLoop(1, 0, <<>>).out
    /\ UNCHANGED <<stages, inputVals, inputCloses, chCloses, prodNext, prodPc, collected, consPc>>
    /\ UNCHANGED <<cancelled, notPL>>

\* the producer goroutine is parked in input <- i
ProducerOffers(c) == c = 0 /\ prodPc = "send" /\ prodNext <= Len(inputVals)

\* stage goroutine g is parked in its select with case output <- f(val) on channel c
StageOffers(g, c) == goroutines[g].pc = "send" /\ goroutines[g].out = c

\* the value stage goroutine g offers: val.(int) * 2, val.(int) + 10
Offered(g) == Apply(goroutines[g].fn, goroutines[g].val)

\* the senders parked on the unbuffered channel c, each with the value it offers
\* (who = 0: the producer, who = g: stage goroutine g)
Offers(c) ==
    (IF ProducerOffers(c) THEN {[who |-> 0, val |-> inputVals[prodNext]]} ELSE {})
    \cup {[who |-> g, val |-> Offered(g)] :
             g \in {h \in 1 .. Len(goroutines) : StageOffers(h, c)}}

\* the sender's side of a completed send: a stage goes back to range input,
\* the producer goes on to its next value
SentBy(o, gs) == IF o.who = 0 THEN gs ELSE [gs EXCEPT ![o.who].pc = "recv"]
ProducerAfter(o) == IF o.who = 0 THEN prodNext + 1 ELSE prodNext

\* for val := range input: stage goroutine g receives the next value
StageReceive(g) ==
    /\ g \in 1 .. Len(goroutines)
    /\ goroutines[g].pc = "recv"
    /\ \E o \in Offers(goroutines[g].in) :
          /\ goroutines' = [SentBy(o, goroutines) EXCEPT ![g].pc = "send",
                                                          ![g].val = o.val]
          /\ prodNext' = ProducerAfter(o)
    /\ UNCHANGED <<stages, inputVals, inputCloses, executed, pipeOut, chCloses, prodPc,
                   collected, consPc>>
    /\ UNCHANGED <<cancelled, notPL>>

\* for val := range input ends on the closed input; defer close(output)
StageInputClosed(g) ==
    /\ g \in 1 .. Len(goroutines)
    /\ goroutines[g].pc = "recv"
    /\ chClosed(goroutines[g].in)
    /\ goroutines' = [goroutines EXCEPT ![g].pc = "done"]
    /\ chCloses' = [chCloses EXCEPT ![goroutines[g].out] = @ + 1]
    /\ UNCHANGED <<stages, inputVals, inputCloses, executed, pipeOut, prodNext, prodPc,
                   collected, consPc>>
    /\ UNCHANGED <<cancelled, notPL>>

\* select: case <-ctx.Done(): return; defer close(output)
StageCancelled(g) ==
    /\ g \in 1 .. Len(goroutines)
    /\ goroutines[g].pc = "send"
    /\ cancelled
    /\ goroutines' = [goroutines EXCEPT ![g].pc = "done"]
    /\ chCloses' = [chCloses EXCEPT ![goroutines[g].out] = @ + 1]
    /\ UNCHANGED <<stages, inputVals, inputCloses, executed, pipeOut, prodNext, prodPc,
                   collected, consPc>>
    /\ UNCHANGED <<cancelled, notPL>>

\* the producer's loop is over: defer close(input)
ProducerClose ==
    /\ inputCloses
    /\ prodPc = "send"
    /\ prodNext > Len(inputVals)
    /\ prodPc' = "done"
    /\ chCloses' = [chCloses EXCEPT ![0] = @ + 1]
    /\ UNCHANGED <<stages, inputVals, inputCloses, executed, goroutines, pipeOut, prodNext,
                   collected, consPc>>
    /\ UNCHANGED <<cancelled, notPL>>

\* for result := range output: the consumer receives the next value
ConsumerReceive ==
    /\ executed
    /\ consPc = "recv"
    /\ \E o \in Offers(pipeOut) :
          /\ collected' = Append(collected, o.val)
          /\ goroutines' = SentBy(o, goroutines)
          /\ prodNext' = ProducerAfter(o)
    /\ UNCHANGED <<stages, inputVals, inputCloses, executed, pipeOut, chCloses, prodPc, consPc>>
    /\ UNCHANGED <<cancelled, notPL>>

\* for result := range output ends: the returned channel is closed
ConsumerDone ==
    /\ executed
    /\ consPc = "recv"
    /\ chClosed(pipeOut)
    /\ consPc' = "done"
    /\ UNCHANGED <<stages, inputVals, inputCloses, executed, goroutines, pipeOut, chCloses,
                   prodNext, prodPc, collected>>
    /\ UNCHANGED <<cancelled, notPL>>

stage(g) ==
    \/ StageReceive(g)
    \/ StageInputClosed(g)
    \/ StageCancelled(g)

PLNext ==
    \/ Execute
    \/ \E g \in 1 .. MaxStages : stage(g)
    \/ ProducerClose
    \/ ConsumerReceive
    \/ ConsumerDone
    \/ Cancel

\* ======================================================== FanOut / FanIn
FanIds == 1 .. MaxFan

\* the transform of the tests: n * n
Square(v) == v * v

\* a FanOut that starts one worker fewer
FanOutOutputsOneShort(n) == 1 .. n - 1

\* a FanOut that starts one worker more
FanOutOutputsOneMore(n) == 1 .. n + 1

\* FanOut: outputs[i] = worker(ctx, input, fn) for i := 0; i < workers; i++
FanOutOutputs(n) == 1 .. n

\* a FanIn that waits for one reader more than it has inputs
FanInReadersOneMore(inputs) == inputs \cup {Cardinality(inputs) + 1}

\* FanIn: wg.Add(len(inputs)); one multiplex goroutine per input
FanInReaders(inputs) == inputs

\* the state before FanOut is called: the producer of the tests over 1..n
NewFanOut(w, n) ==
    /\ foWorkers = w
    /\ foItems = [k \in 1 .. n |-> k]
    /\ foNext = 1
    /\ foInputClosed = FALSE
    /\ foPhase = "new"
    /\ fw = [i \in FanIds |-> [pc |-> "idle", item |-> 0, val |-> 0]]
    /\ outCloses = [i \in FanIds |-> 0]
    /\ mx = [i \in FanIds |-> [pc |-> "idle", val |-> 0]]
    /\ fiWg = 0
    /\ closerPc = "idle"
    /\ mergedCloses = 0
    /\ merged = <<>>
    /\ fcPc = "recv"
    /\ transformed = [k \in 1 .. MaxItems |-> 0]

\* any worker count, any finite input, closed at its end or left open
FOInit ==
    /\ \E w \in 0 .. MaxFan, n \in 0 .. MaxItems : NewFanOut(w, n)
    /\ foInputCloses \in BOOLEAN

\* the fan-out of a run that does not use it
FOUnused == NewFanOut(0, 0) /\ foInputCloses = TRUE

\* FanOut(ctx, input, workers, fn): every worker goroutine starts at its select
FanOutCall ==
    /\ foPhase = "new"
    /\ foPhase' = "fannedOut"
    /\ fw' = [i \in FanIds |-> IF i \in FanOutOutputs(foWorkers)
                               THEN [pc |-> "recv", item |-> 0, val |-> 0]
                               ELSE fw[i]]
    /\ UNCHANGED <<foWorkers, foItems, foInputCloses, foNext, foInputClosed,
                   outCloses, mx, fiWg, closerPc, mergedCloses, merged, fcPc,
                   transformed>>
    /\ UNCHANGED <<cancelled, notFO>>

\* FanIn(ctx, outputs...): wg.Add(len(inputs)), the multiplex goroutines and the
\* goroutine that closes the merged channel start
FanInCall ==
    /\ foPhase = "fannedOut"
    /\ foPhase' = "fannedIn"
    /\ fiWg' = fiWg + Cardinality(FanInReaders(FanOutOutputs(foWorkers)))
    /\ mx' = [i \in FanIds |-> IF i \in FanInReaders(FanOutOutputs(foWorkers))
                               THEN [pc |-> "recv", val |-> 0]
                               ELSE mx[i]]
    /\ closerPc' = "wait"
    /\ UNCHANGED <<foWorkers, foItems, foInputCloses, foNext, foInputClosed, fw,
                   outCloses, mergedCloses, merged, fcPc, transformed>>
    /\ UNCHANGED <<cancelled, notFO>>

\* a receive that leaves the value in the input channel for the next receiver
InputAfterPeek(n) == n

\* val, ok := <-input takes the value out of the input channel: the next receive
\* gets the producer's next value
InputAfterReceive(n) == n + 1

\* worker: case val, ok := <-input with ok; result := fn(val); then the send select
FanWorkerReceive(w) ==
    /\ fw[w].pc = "recv"
    /\ ~foInputClosed
    /\ foNext <= Len(foItems)
    /\ fw' = [fw EXCEPT ![w] = [pc |-> "send", item |-> foNext,
                                val |-> Square(foItems[foNext])]]
    /\ transformed' = [transformed EXCEPT ![foNext] = @ + 1]
    /\ foNext' = InputAfterReceive(foNext)
    /\ UNCHANGED <<foWorkers, foItems, foInputCloses, foInputClosed, foPhase,
                   outCloses, mx, fiWg, closerPc, mergedCloses, merged, fcPc>>
    /\ UNCHANGED <<cancelled, notFO>>

\* a worker that returns without closing its output
NoDeferredClose(cs, w) == cs

\* worker: defer close(output) runs when the goroutine returns
DeferredClose(cs, w) == [cs EXCEPT ![w] = @ + 1]

\* worker: case val, ok := <-input with !ok: return; defer close(output)
FanWorkerInputClosed(w) ==
    /\ fw[w].pc = "recv"
    /\ foInputClosed
    /\ fw' = [fw EXCEPT ![w].pc = "done"]
    /\ outCloses' = DeferredClose(outCloses, w)
    /\ UNCHANGED <<foWorkers, foItems, foInputCloses, foNext, foInputClosed,
                   foPhase, mx, fiWg, closerPc, mergedCloses, merged, fcPc,
                   transformed>>
    /\ UNCHANGED <<cancelled, notFO>>

\* the selects of worker in which case <-ctx.Done() is a case
FanWorkerWatchesCtx(pc) == pc \in {"recv", "send"}

\* worker: case <-ctx.Done(): return, in either select; defer close(output)
FanWorkerCancelled(w) ==
    /\ FanWorkerWatchesCtx(fw[w].pc)
    /\ cancelled
    /\ fw' = [fw EXCEPT ![w].pc = "done"]
    /\ outCloses' = DeferredClose(outCloses, w)
    /\ UNCHANGED <<foWorkers, foItems, foInputCloses, foNext, foInputClosed,
                   foPhase, mx, fiWg, closerPc, mergedCloses, merged, fcPc,
                   transformed>>
    /\ UNCHANGED <<cancelled, notFO>>

\* multiplex: case val, ok := <-c with ok, meeting worker m parked in output <- result
MultiplexReceive(m) ==
    /\ mx[m].pc = "recv"
    /\ fw[m].pc = "send"
    /\ outCloses[m] = 0
    /\ mx' = [mx EXCEPT ![m] = [pc |-> "send", val |-> fw[m].val]]
    /\ fw' = [fw EXCEPT ![m].pc = "recv"]
    /\ UNCHANGED <<foWorkers, foItems, foInputCloses, foNext, foInputClosed,
                   foPhase, outCloses, fiWg, closerPc, mergedCloses, merged, fcPc,
                   transformed>>
    /\ UNCHANGED <<cancelled, notFO>>

\* multiplex: case val, ok := <-c with !ok: return; defer wg.Done()
MultiplexInputClosed(m) ==
    /\ mx[m].pc = "recv"
    /\ outCloses[m] > 0
    /\ mx' = [mx EXCEPT ![m].pc = "done"]
    /\ fiWg' = fiWg - 1
    /\ UNCHANGED <<foWorkers, foItems, foInputCloses, foNext, foInputClosed,
                   foPhase, fw, outCloses, closerPc, mergedCloses, merged, fcPc,
                   transformed>>
    /\ UNCHANGED <<cancelled, notFO>>

\* a multiplex whose send on the merged channel does not watch ctx.Done()
MultiplexWatchesCtxOnReceive(pc) == pc = "recv"

\* the selects of multiplex in which case <-ctx.Done() is a case
MultiplexWatchesCtx(pc) == pc \in {"recv", "send"}

\* multiplex: case <-ctx.Done(): return, in either select; defer wg.Done()
MultiplexCancelled(m) ==
    /\ MultiplexWatchesCtx(mx[m].pc)
    /\ cancelled
    /\ mx' = [mx EXCEPT ![m].pc = "done"]
    /\ fiWg' = fiWg - 1
    /\ UNCHANGED <<foWorkers, foItems, foInputCloses, foNext, foInputClosed,
                   foPhase, fw, outCloses, closerPc, mergedCloses, merged, fcPc,
                   transformed>>
    /\ UNCHANGED <<cancelled, notFO>>

\* a join that lets go while one reader is still running
JoinDoneOneEarly(n) == n <= 1

\* wg.Wait() lets the closing goroutine go on
JoinDone(n) == n = 0

\* go func() { wg.Wait(); close(output) }()
MergedClose ==
    /\ closerPc = "wait"
    /\ JoinDone(fiWg)
    /\ closerPc' = "done"
    /\ mergedCloses' = mergedCloses + 1
    /\ UNCHANGED <<foWorkers, foItems, foInputCloses, foNext, foInputClosed,
                   foPhase, fw, outCloses, mx, fiWg, merged, fcPc, transformed>>
    /\ UNCHANGED <<cancelled, notFO>>

\* for val := range result: the consumer receives from a multiplex goroutine
\* parked in output <- val
FanConsumerReceive ==
    /\ foPhase = "fannedIn"
    /\ fcPc = "recv"
    /\ mergedCloses = 0
    /\ \E m \in FanIds :
          /\ mx[m].pc = "send"
          /\ merged' = Append(merged, mx[m].val)
          /\ mx' = [mx EXCEPT ![m].pc = "recv"]
    /\ UNCHANGED <<foWorkers, foItems, foInputCloses, foNext, foInputClosed,
                   foPhase, fw, outCloses, fiWg, closerPc, mergedCloses, fcPc,
                   transformed>>
    /\ UNCHANGED <<cancelled, notFO>>

\* for val := range result ends: the merged channel is closed
FanConsumerDone ==
    /\ foPhase = "fannedIn"
    /\ fcPc = "recv"
    /\ mergedCloses > 0
    /\ fcPc' = "done"
    /\ UNCHANGED <<foWorkers, foItems, foInputCloses, foNext, foInputClosed,
                   foPhase, fw, outCloses, mx, fiWg, closerPc, mergedCloses,
                   merged, transformed>>
    /\ UNCHANGED <<cancelled, notFO>>

\* the consumer stops reading the merged channel before it is closed
FanConsumerStop ==
    /\ fcPc = "recv"
    /\ fcPc' = "stopped"
    /\ UNCHANGED <<foWorkers, foItems, foInputCloses, foNext, foInputClosed,
                   foPhase, fw, outCloses, mx, fiWg, closerPc, mergedCloses,
                   merged, transformed>>
    /\ UNCHANGED <<cancelled, notFO>>

\* the producer's loop is over: defer close(input)
FanProducerClose ==
    /\ foInputCloses
    /\ ~foInputClosed
    /\ foNext > Len(foItems)
    /\ foInputClosed' = TRUE
    /\ UNCHANGED <<foWorkers, foItems, foInputCloses, foNext, foPhase, fw,
                   outCloses, mx, fiWg, closerPc, mergedCloses, merged, fcPc,
                   transformed>>
    /\ UNCHANGED <<cancelled, notFO>>

worker(w) ==
    \/ FanWorkerReceive(w)
    \/ FanWorkerInputClosed(w)
    \/ FanWorkerCancelled(w)

multiplex(m) ==
    \/ MultiplexReceive(m)
    \/ MultiplexInputClosed(m)
    \/ MultiplexCancelled(m)

FONext ==
    \/ FanOutCall
    \/ FanInCall
    \/ \E w \in FanIds : worker(w)
    \/ \E m \in FanIds : multiplex(m)
    \/ MergedClose
    \/ FanConsumerReceive
    \/ FanConsumerDone
    \/ FanConsumerStop
    \/ FanProducerClose
    \/ Cancel

\* ============================================================ RateLimiter
CallerIds == 1 .. MaxCallers

\* a fill loop that stops one token short
InitialTokensOneShort(c) == c - 1

\* a fill loop that puts one token more than requestsPerSecond
InitialTokensOneMore(c) == c + 1

\* NewRateLimiter: for i := 0; i < requestsPerSecond; i++ { rl.tokens <- struct{}{} }
InitialTokens(c) == c

NoCall == [pc |-> "idle", ctxDone |-> FALSE, afterStop |-> FALSE]

NewRateLimiter(c) ==
    /\ rlCap = c
    /\ tokens = InitialTokens(c)
    /\ rlDoneCloses = 0
    /\ rlPanicked = FALSE
    /\ refillPc = "run"
    /\ tickPending = FALSE
    /\ ticks = 0
    /\ wt = [k \in CallerIds |-> NoCall]
    /\ okCount = 0
    /\ errCount = 0

RLInit == \E c \in 1 .. MaxRate : NewRateLimiter(c)

\* the rate limiter of a run that does not use it
RLUnused == NewRateLimiter(1)

\* Wait calls made so far
WaitCalls == okCount + errCount + Cardinality({k \in CallerIds : wt[k].pc # "idle"})

\* the ticker of refill fires: ticker.C has a buffer of one tick
TickFire ==
    /\ ~rlPanicked
    /\ refillPc = "run"
    /\ ticks < MaxTicks
    /\ ticks' = ticks + 1
    /\ tickPending' = TRUE
    /\ UNCHANGED <<rlCap, tokens, rlDoneCloses, rlPanicked, refillPc, wt, okCount,
                   errCount>>
    /\ UNCHANGED <<cancelled, notRL>>

\* a refill that sends its token whatever the bucket holds
RefilledPastCap(t, c) == t + 1

\* refill: select { case rl.tokens <- struct{}{}: default: }
Refilled(t, c) == IF t < c THEN t + 1 ELSE t

\* refill: case <-ticker.C
RefillOnTick ==
    /\ ~rlPanicked
    /\ refillPc = "run"
    /\ tickPending
    /\ tickPending' = FALSE
    /\ tokens' = Refilled(tokens, rlCap)
    /\ UNCHANGED <<rlCap, rlDoneCloses, rlPanicked, refillPc, ticks, wt, okCount,
                   errCount>>
    /\ UNCHANGED <<cancelled, notRL>>

\* refill: case <-rl.done: return; defer ticker.Stop()
RefillExit ==
    /\ ~rlPanicked
    /\ refillPc = "run"
    /\ rlDoneCloses > 0
    /\ refillPc' = "done"
    /\ UNCHANGED <<rlCap, tokens, rlDoneCloses, rlPanicked, tickPending, ticks, wt,
                   okCount, errCount>>
    /\ UNCHANGED <<cancelled, notRL>>

\* rl.Wait(ctx) is called: the caller enters the select
WaitCall(k) ==
    /\ ~rlPanicked
    /\ wt[k].pc = "idle"
    /\ WaitCalls < MaxWaits
    /\ wt' = [wt EXCEPT ![k] = [pc |-> "waiting", ctxDone |-> cancelled,
                                afterStop |-> rlDoneCloses > 0]]
    /\ UNCHANGED <<rlCap, tokens, rlDoneCloses, rlPanicked, refillPc, tickPending,
                   ticks, okCount, errCount>>
    /\ UNCHANGED <<cancelled, notRL>>

\* a receive that leaves the token in the bucket
TokensAfterPeek(t) == t

\* <-rl.tokens takes one token out of the channel
TokensAfterTake(t) == t - 1

\* Wait: case <-rl.tokens
WaitTakeToken(k) ==
    /\ ~rlPanicked
    /\ wt[k].pc = "waiting"
    /\ tokens > 0
    /\ tokens' = TokensAfterTake(tokens)
    /\ wt' = [wt EXCEPT ![k].pc = "got"]
    /\ UNCHANGED <<rlCap, rlDoneCloses, rlPanicked, refillPc, tickPending, ticks,
                   okCount, errCount>>
    /\ UNCHANGED <<cancelled, notRL>>

\* a Wait that also gives up when rl.done is closed
WaitGivesUpOnStop == cancelled \/ rlDoneCloses > 0

\* the channels other than rl.tokens that the select of Wait receives from
WaitGivesUp == cancelled

\* Wait: case <-ctx.Done()
WaitObserveCancel(k) ==
    /\ ~rlPanicked
    /\ wt[k].pc = "waiting"
    /\ WaitGivesUp
    /\ wt' = [wt EXCEPT ![k].pc = "err"]
    /\ UNCHANGED <<rlCap, tokens, rlDoneCloses, rlPanicked, refillPc, tickPending,
                   ticks, okCount, errCount>>
    /\ UNCHANGED <<cancelled, notRL>>

\* Wait: return nil
WaitReturnNil(k) ==
    /\ ~rlPanicked
    /\ wt[k].pc = "got"
    /\ wt' = [wt EXCEPT ![k] = NoCall]
    /\ okCount' = okCount + 1
    /\ UNCHANGED <<rlCap, tokens, rlDoneCloses, rlPanicked, refillPc, tickPending,
                   ticks, errCount>>
    /\ UNCHANGED <<cancelled, notRL>>

\* Wait: return ctx.Err()
WaitReturnErr(k) ==
    /\ ~rlPanicked
    /\ wt[k].pc = "err"
    /\ wt' = [wt EXCEPT ![k] = NoCall]
    /\ errCount' = errCount + 1
    /\ UNCHANGED <<rlCap, tokens, rlDoneCloses, rlPanicked, refillPc, tickPending,
                   ticks, okCount>>
    /\ UNCHANGED <<cancelled, notRL>>

\* a close that does nothing on a channel that is closed already
CloseOfClosedIgnored == FALSE

\* close(rl.done) on a closed channel: panic: close of closed channel
CloseOfClosedPanics == TRUE

\* Stop: close(rl.done); closing a closed channel panics
Stop ==
    /\ ~rlPanicked
    /\ IF rlDoneCloses = 0
         THEN rlDoneCloses' = 1 /\ UNCHANGED rlPanicked
         ELSE rlPanicked' = CloseOfClosedPanics /\ UNCHANGED rlDoneCloses
    /\ UNCHANGED <<rlCap, tokens, refillPc, tickPending, ticks, wt, okCount,
                   errCount>>
    /\ UNCHANGED <<cancelled, notRL>>

refill ==
    \/ RefillOnTick
    \/ RefillExit

Wait(k) ==
    \/ WaitCall(k)
    \/ WaitTakeToken(k)
    \/ WaitObserveCancel(k)
    \/ WaitReturnNil(k)
    \/ WaitReturnErr(k)

RLNext ==
    \/ TickFire
    \/ refill
    \/ \E k \in CallerIds : Wait(k)
    \/ Stop
    \/ Cancel

\* ============================================================== Broadcast
SubIds == 1 .. MaxSubs

\* Subscribe is called as many times as there are ids, with any of the ids
MaxChans == MaxSubs

\* buffer sizes from 1 up to the number of messages sent
MaxBuf == MaxMsgs

\* the goroutines that call Send
SenderIds == 1 .. MaxSenders

ChanIds == 1 .. Len(bcChans)

\* what Send's return value and its deferred RUnlock leave of the call
Returned(o) == [pc |-> "done", msg |-> 0, ctxDone |-> FALSE, todo |-> {}, outcome |-> o]

NoSend == [pc |-> "idle", msg |-> 0, ctxDone |-> FALSE, todo |-> {}, outcome |-> "none"]

\* NewBroadcast: an empty registry
NewBroadcast ==
    /\ bcChans = <<>>
    /\ registry = [id \in SubIds |-> 0]
    /\ sd = [s \in SenderIds |-> NoSend]
    /\ bcSent = 0
    /\ bcShut = FALSE
    /\ regChanged = FALSE
    /\ bcPanicked = FALSE

\* the broadcaster of a run that does not use it
BCUnused == NewBroadcast

\* the channels b.subscribers holds
Registered == {registry[id] : id \in SubIds} \ {0}

\* the messages sent on channel c and not received yet
Buffered(c) == SubSeq(bcChans[c].log, bcChans[c].taken + 1, Len(bcChans[c].log))

IsFull(c) == Len(Buffered(c)) >= bcChans[c].cap

IsClosed(c) == bcChans[c].closes > 0

\* the senders between b.mu.RLock() and b.mu.RUnlock()
ReadLocked == {s \in SenderIds : sd[s].pc = "iter"}

\* a writer that does not wait for the senders to release the lock
CanLockAnyTime == TRUE

\* b.mu.Lock() succeeds when no sender holds the read lock; Subscribe,
\* Unsubscribe and Close run from Lock to Unlock in one step
CanLock == ReadLocked = {}

\* close(ch) for every channel of the set cs; closing a closed channel panics
ClosedAll(cs) ==
    [c \in ChanIds |-> IF c \in cs THEN [bcChans[c] EXCEPT !.closes = @ + 1]
                                   ELSE bcChans[c]]

\* a Subscribe that closes the channel the id had before
OverwrittenClosed(id) == ClosedAll({registry[id]} \ {0})

\* Subscribe: b.subscribers[id] = ch overwrites the map entry; the channel the
\* id had before is not touched
Overwritten(id) == bcChans

\* Subscribe: ch := make(chan interface{}, bufferSize); b.subscribers[id] = ch
Subscribe(id, n) ==
    /\ ~bcPanicked
    /\ CanLock
    /\ Len(bcChans) < MaxChans
    /\ bcChans' = Append(Overwritten(id), [id |-> id, cap |-> n, log |-> <<>>, taken |-> 0,
                                   closes |-> 0])
    /\ registry' = [registry EXCEPT ![id] = Len(bcChans) + 1]
    /\ regChanged' = (regChanged \/ bcSent > 0)
    /\ UNCHANGED <<sd, bcSent, bcShut, bcPanicked>>
    /\ UNCHANGED <<cancelled, notBC>>

\* an Unsubscribe that closes the channel and keeps the registry entry
KeepEntry(id) == registry

\* Unsubscribe: delete(b.subscribers, id)
DeleteEntry(id) == [registry EXCEPT ![id] = 0]

\* Unsubscribe: close and delete the channel of id if there is one
Unsubscribe(id) ==
    /\ ~bcPanicked
    /\ CanLock
    /\ IF registry[id] # 0
         THEN /\ bcChans' = ClosedAll({registry[id]})
              /\ bcPanicked' = IsClosed(registry[id])
              /\ registry' = DeleteEntry(id)
         ELSE UNCHANGED <<bcChans, registry, bcPanicked>>
    /\ regChanged' = (regChanged \/ (registry[id] # 0 /\ bcSent > 0))
    /\ UNCHANGED <<sd, bcSent, bcShut>>
    /\ UNCHANGED <<cancelled, notBC>>

\* a Close that closes the channels and keeps the map
KeepRegistry == registry

\* Close: b.subscribers = make(map[string]chan interface{})
EmptyRegistry == [id \in SubIds |-> 0]

\* Close: close every channel of the registry and replace the registry
Close ==
    /\ ~bcPanicked
    /\ CanLock
    /\ bcChans' = ClosedAll(Registered)
    /\ bcPanicked' = (\E c \in Registered : IsClosed(c))
    /\ registry' = EmptyRegistry
    /\ bcShut' = TRUE
    /\ regChanged' = (regChanged \/ (Registered # {} /\ bcSent > 0))
    /\ UNCHANGED <<sd, bcSent>>
    /\ UNCHANGED <<cancelled, notBC>>

\* a Send that takes the lock for itself alone
CanRLockAlone == ReadLocked = {}

\* b.mu.RLock() succeeds whatever other senders hold the read lock; no writer
\* holds the lock between steps
CanRLock == TRUE

\* Send: b.mu.RLock(); the loop starts over the channels of the registry
SendCall(s) ==
    /\ ~bcPanicked
    /\ sd[s].pc # "iter"
    /\ CanRLock
    /\ bcSent < MaxMsgs
    /\ bcSent' = bcSent + 1
    /\ sd' = [sd EXCEPT ![s] = [pc |-> "iter", msg |-> bcSent + 1,
                                ctxDone |-> cancelled, todo |-> Registered,
                                outcome |-> "none"]]
    /\ UNCHANGED <<bcChans, registry, bcShut, regChanged, bcPanicked>>
    /\ UNCHANGED <<cancelled, notBC>>

\* a delivery that puts the message in front of the buffered ones
PutFirst(c, m) ==
    [bcChans EXCEPT ![c].log = SubSeq(@, 1, bcChans[c].taken) \o <<m>> \o Buffered(c)]

\* ch <- msg into a buffered channel
Put(c, m) == [bcChans EXCEPT ![c].log = Append(@, m)]

\* Send: case ch <- msg, for the next channel the range over the map yields;
\* a send on a closed channel panics
SendDeliver(s, c) ==
    /\ ~bcPanicked
    /\ sd[s].pc = "iter"
    /\ c \in sd[s].todo
    /\ IF IsClosed(c)
         THEN bcPanicked' = TRUE /\ UNCHANGED <<bcChans, sd>>
         ELSE /\ ~IsFull(c)
              /\ bcChans' = Put(c, sd[s].msg)
              /\ sd' = [sd EXCEPT ![s].todo = @ \ {c}]
              /\ UNCHANGED bcPanicked
    /\ UNCHANGED <<registry, bcSent, bcShut, regChanged>>
    /\ UNCHANGED <<cancelled, notBC>>

\* Send: case <-ctx.Done(): return ctx.Err(); defer b.mu.RUnlock()
SendCancelled(s, c) ==
    /\ ~bcPanicked
    /\ sd[s].pc = "iter"
    /\ c \in sd[s].todo
    /\ cancelled
    /\ sd' = [sd EXCEPT ![s] = Returned("cancelled")]
    /\ UNCHANGED <<bcChans, registry, bcSent, bcShut, regChanged, bcPanicked>>
    /\ UNCHANGED <<cancelled, notBC>>

\* a Send whose select has no default case
SendOnFullBlocks(s, c) == FALSE /\ UNCHANGED vars

\* Send: default: return fmt.Errorf("subscriber channel full"); no other case
\* of the select is ready
SendOnFull(s, c) ==
    /\ ~bcPanicked
    /\ sd[s].pc = "iter"
    /\ c \in sd[s].todo
    /\ ~cancelled
    /\ ~IsClosed(c)
    /\ IsFull(c)
    /\ sd' = [sd EXCEPT ![s] = Returned("full")]
    /\ UNCHANGED <<bcChans, registry, bcSent, bcShut, regChanged, bcPanicked>>
    /\ UNCHANGED <<cancelled, notBC>>

\* Send: the loop is over: return nil; defer b.mu.RUnlock()
SendReturnNil(s) ==
    /\ ~bcPanicked
    /\ sd[s].pc = "iter"
    /\ sd[s].todo = {}
    /\ sd' = [sd EXCEPT ![s] = Returned("nil")]
    /\ UNCHANGED <<bcChans, registry, bcSent, bcShut, regChanged, bcPanicked>>
    /\ UNCHANGED <<cancelled, notBC>>

\* a subscriber reads the next message from the channel Subscribe returned
SubscriberReceive(c) ==
    /\ ~bcPanicked
    /\ c \in ChanIds
    /\ Len(Buffered(c)) > 0
    /\ bcChans' = [bcChans EXCEPT ![c].taken = @ + 1]
    /\ UNCHANGED <<registry, sd, bcSent, bcShut, regChanged, bcPanicked>>
    /\ UNCHANGED <<cancelled, notBC>>

Send(s) ==
    \/ SendCall(s)
    \/ \E c \in 1 .. MaxChans : SendDeliver(s, c)
    \/ \E c \in 1 .. MaxChans : SendCancelled(s, c)
    \/ \E c \in 1 .. MaxChans : SendOnFull(s, c)
    \/ SendReturnNil(s)

BCNext ==
    \/ \E id \in SubIds, n \in 1 .. MaxBuf : Subscribe(id, n)
    \/ \E id \in SubIds : Unsubscribe(id)
    \/ \E s \in SenderIds : Send(s)
    \/ \E c \in 1 .. MaxChans : SubscriberReceive(c)
    \/ Close
    \/ Cancel

\* ------------------------------------------------------------------ Next
runWorker(i) ==
    \/ WorkerDequeue(i)
    \/ WorkerExitCancelled(i)
    \/ WorkerExitClosed(i)
    \/ WorkerReturn(i)
    \/ WorkerPublish(i)

WPNext ==
    \/ Start
    \/ \E i \in WorkerIds : runWorker(i)
    \/ SubmitCall
    \/ SubmitSend
    \/ CloseCall
    \/ CloseReturn
    \/ ReadResult
    \/ ReadClosed
    \/ Cancel

\* the worker pool alone: the other primitives stay as constructed
InitWorkerPool ==
    WPInit /\ PLUnused /\ FOUnused /\ RLUnused /\ BCUnused /\ cancelled = FALSE

SpecWorkerPool == InitWorkerPool /\ [][WPNext]_vars

\* Scheduling: the Go scheduler runs every runnable goroutine eventually, so a
\* goroutine whose next step stays possible takes it.  What the caller decides
\* to call next (Start, Submit, Close) and cancellation carry no fairness.
WPFairness ==
    /\ \A i \in WorkerIds : WF_vars(runWorker(i))
    /\ WF_vars(SubmitSend)
    /\ WF_vars(CloseReturn)
    /\ WF_vars(ReadResult)
    /\ WF_vars(ReadClosed)

FairWorkerPool == SpecWorkerPool /\ WPFairness

\* the pipeline alone, with the producer and the consumer of the tests
InitPipeline ==
    PLInit /\ WPUnused /\ FOUnused /\ RLUnused /\ BCUnused /\ cancelled = FALSE

SpecPipeline == InitPipeline /\ [][PLNext]_vars

\* Scheduling: the test calls Execute, and every goroutine that can take its
\* next step eventually does.  Cancellation carries no fairness.
PLFairness ==
    /\ WF_vars(Execute)
    /\ \A g \in 1 .. MaxStages : WF_vars(stage(g))
    /\ WF_vars(ProducerClose)
    /\ WF_vars(ConsumerReceive)
    /\ WF_vars(ConsumerDone)

FairPipeline == SpecPipeline /\ PLFairness

\* the pipeline over any input stream, closed at its end or left open
InitPipelineAnyInput ==
    PLInitAnyInput /\ WPUnused /\ FOUnused /\ RLUnused /\ BCUnused /\ cancelled = FALSE

FairPipelineAnyInput == InitPipelineAnyInput /\ [][PLNext]_vars /\ PLFairness

\* FanOut and FanIn alone, with the producer and the consumer of the tests
InitFanOut ==
    FOInit /\ WPUnused /\ PLUnused /\ RLUnused /\ BCUnused /\ cancelled = FALSE

SpecFanOut == InitFanOut /\ [][FONext]_vars

\* a step of the caller (FanOut, then FanIn) or of a goroutine that is not parked
FOProgress ==
    \/ FanOutCall
    \/ FanInCall
    \/ \E w \in FanIds : worker(w)
    \/ \E m \in FanIds : multiplex(m)
    \/ MergedClose
    \/ FanConsumerReceive
    \/ FanConsumerDone
    \/ FanProducerClose

\* Scheduling: while some goroutine can take a step, one of them eventually
\* does.  This asks less of the scheduler than fairness to every goroutine, and
\* no goroutine here can loop without consuming the finite input.
\* Cancellation and the consumer's decision to stop reading carry no fairness.
FOFairness == WF_vars(FOProgress)

FairFanOut == SpecFanOut /\ FOFairness

\* one RateLimiter, its refill goroutine and the goroutines calling Wait and Stop
InitRateLimiter ==
    RLInit /\ WPUnused /\ PLUnused /\ FOUnused /\ BCUnused /\ cancelled = FALSE

SpecRateLimiter == InitRateLimiter /\ [][RLNext]_vars

\* Scheduling: the ticker keeps firing while it runs, and a goroutine that can
\* take its next step eventually does.  Calling Wait, calling Stop and
\* cancelling carry no fairness.
RLFairness ==
    /\ WF_vars(TickFire)
    /\ WF_vars(refill)
    /\ \A k \in CallerIds :
          WF_vars(WaitTakeToken(k) \/ WaitObserveCancel(k)
                      \/ WaitReturnNil(k) \/ WaitReturnErr(k))

FairRateLimiter == SpecRateLimiter /\ RLFairness

\* one Broadcast, the goroutines calling it and the subscribers reading
InitBroadcast ==
    NewBroadcast /\ WPUnused /\ PLUnused /\ FOUnused /\ RLUnused /\ cancelled = FALSE

SpecBroadcast == InitBroadcast /\ [][BCNext]_vars

\* ================================================================ claims

\* every submitted job was invoked exactly once and its outcome appeared
\* exactly once on the results stream
AllJobsDelivered ==
    \A j \in 1 .. submitted : invoked[j] = 1 /\ CountJob(Published, j) = 1

\* C1: without cancellation, every job accepted by Submit is passed to the
\* worker function by exactly one worker (never two, never none), so once Close
\* is called all N submitted jobs end up invoked once with N outcomes on the
\* results stream.
C1_EveryJobInvokedExactlyOnce ==
    /\ [](\A j \in JobIds : invoked[j] <= 1)
    /\ (callerPc = "closeWait") ~> (cancelled \/ AllJobsDelivered)

\* C2: without cancellation, a Close called after the Submit calls eventually
\* returns, with every submitted job processed and the results stream closed,
\* also when Results is read only after Close has returned.
C2_CloseEventuallyReturns ==
    (callerPc = "closeWait")
        ~> (cancelled \/ (closeReturned /\ resultsClosed
                            /\ \A j \in 1 .. submitted : returned[j] # "none"))

Pending(j) == {i \in WorkerIds : wpc[i] = "send" /\ wjob[i] = j /\ werr[i] = returned[j]}

AllWorkersExited == \A i \in Launched(workers) : wpc[i] = "done"

\* C5: once the cancellation signal has fired, every worker goroutine
\* eventually terminates, whatever the state of the results stream.
C5_WorkersExitAfterCancel ==
    (cancelled /\ started) ~> (AllWorkersExited \/ panicked)

\* C6: after the cancellation signal has fired no worker dequeues a further
\* job, so the jobs queued at that moment are never invoked.
C6_NoDequeueAfterCancel == [][cancelled => invoked' = invoked]_vars

\* C7: a Submit call blocked on the full job queue returns once cancellation
\* has fired.
C7_BlockedSubmitObservesCancel ==
    (cancelled /\ callerPc = "submit") ~> (callerPc # "submit" \/ panicked)

\* C8: at most 2W jobs are queued; a Submit on the open queue can complete
\* while fewer than 2W jobs are queued and is blocked exactly when 2W are.
C8_JobQueueBound ==
    /\ Len(jobs) <= 2 * workers
    /\ (callerPc = "submit" /\ ~jobsClosed /\ ~panicked)
          => (ENABLED SubmitSend <=> Len(jobs) < 2 * workers)

\* a Submit is blocked on a full queue of 2W jobs
C8_Witness == callerPc = "submit" /\ ~jobsClosed /\ Len(jobs) = 2 * workers

\* a Submit is in progress that was issued after Close closed the job queue
LateSubmit == callerPc = "submit" /\ jobsClosed

\* the job of the Submit in progress is not queued, invoked or published
NeverAccepted ==
    /\ \A k \in 1 .. Len(jobs) : jobs[k] # submitted
    /\ invoked[submitted] = 0
    /\ CountJob(Published, submitted) = 0

\* C9: a Submit issued after Close never enqueues its job and never reaches a
\* worker; it does not block and does not return: its send panics.
C9_SubmitAfterClosePanics ==
    /\ [](LateSubmit => (NeverAccepted /\ (panicked \/ ENABLED SubmitSend)))
    /\ [][LateSubmit => (callerPc' = "submit" /\ (SubmitSend => panicked'))]_vars

\* the process has died of the panic of a Submit issued after Close
C9_Witness == LateSubmit /\ panicked /\ closeReturned

\* the composition sk(...s1(x)...) of the stage functions, in list order
RECURSIVE ApplyAll(_, _)
ApplyAll(fns, v) ==
    IF fns = <<>> THEN v ELSE ApplyAll(Tail(fns), Apply(Head(fns), v))

Expected == [k \in 1 .. Len(inputVals) |-> ApplyAll(stages, inputVals[k])]

IsPrefix(s, t) == Len(s) <= Len(t) /\ \A k \in 1 .. Len(s) : s[k] = t[k]

\* C10: Execute chains the stages in list order and returns the last stage's
\* output; without cancellation the returned stream delivers sk(...s1(x)...)
\* for each input x, in input order, and then closes.
C10_PipelineComposesInOrder ==
    /\ []((executed /\ ~cancelled) => IsPrefix(collected, Expected))
    /\ []((consPc = "done" /\ ~cancelled) => collected = Expected)
    /\ <>(cancelled \/ (consPc = "done" /\ collected = Expected))

\* stages [x*2, +10] over [1,2,3,4,5] have delivered [12,14,16,18,20] and closed
C10_Witness ==
    /\ stages = <<"double", "add10">>
    /\ inputVals = <<1, 2, 3, 4, 5>>
    /\ collected = <<12, 14, 16, 18, 20>>
    /\ consPc = "done"
    /\ ~cancelled

\* stage goroutine g exists and its input stream is closed or cancellation fired
StageMustClose(g) ==
    /\ g \in 1 .. Len(goroutines)
    /\ (cancelled \/ chClosed(goroutines[g].in))

StageHasClosed(g) == g \in 1 .. Len(goroutines) /\ chClosed(goroutines[g].out)

\* C11: every stage closes its output stream exactly once, and does so
\* eventually after its input stream closes or after cancellation fires,
\* whichever comes first.
C11_StageClosesOutputOnce ==
    /\ [](\A c \in Channels : chCloses[c] <= 1)
    /\ \A g \in 1 .. MaxStages : (StageMustClose(g) ~> StageHasClosed(g))

\* number of positions of the sequence q that hold v
CountIn(v, q) == Cardinality({k \in 1 .. Len(q) : q[k] = v})

\* the values a run has to deliver: fn(x) for every x of the input
FanExpected == [k \in 1 .. Len(foItems) |-> Square(foItems[k])]

\* the two sequences hold the same values the same number of times
SameMultiset(p, q) ==
    /\ Len(p) = Len(q)
    /\ \A k \in 1 .. Len(p) : CountIn(p[k], p) = CountIn(p[k], q)

FanInDelivered ==
    /\ mergedCloses = 1
    /\ fcPc = "done"
    /\ SameMultiset(merged, FanExpected)
    /\ \A k \in 1 .. Len(foItems) : transformed[k] = 1

\* C12: with N >= 1 workers, a finite input that is then closed and no
\* cancellation, every input item is transformed at most once and delivered at
\* most once at every moment, and a consumer that keeps reading eventually holds
\* exactly the multiset {fn(x) : x in input} and sees the merged stream closed.
C12_FanInDeliversMultiset ==
    /\ [](\A k \in 1 .. MaxItems : transformed[k] <= 1)
    /\ [](\A k \in 1 .. Len(merged) :
             CountIn(merged[k], merged) <= CountIn(merged[k], FanExpected))
    /\ (foWorkers >= 1 /\ foInputCloses)
          => <>(cancelled \/ fcPc = "stopped" \/ FanInDelivered)

C12_Witness ==
    /\ ~cancelled
    /\ foWorkers = MaxFan
    /\ Len(foItems) = MaxItems
    /\ FanInDelivered
    /\ merged # FanExpected

\* C13: while cancellation has not fired, the merged stream is closed only if
\* every input stream of FanIn has been closed.
C13_MergedClosesAfterAllInputs ==
    (~cancelled /\ mergedCloses > 0)
        => \A m \in FanInReaders(FanOutOutputs(foWorkers)) : outCloses[m] > 0

C13_Witness ==
    /\ ~cancelled
    /\ foPhase = "fannedIn"
    /\ mergedCloses = 0
    /\ \E m \in FanIds : outCloses[m] > 0 /\ mx[m].pc = "done"
    /\ \E m \in FanIds : fw[m].pc = "send" /\ outCloses[m] = 0

FanAllTerminated ==
    /\ \A w \in FanOutOutputs(foWorkers) : fw[w].pc = "done"
    /\ \A m \in FanInReaders(FanOutOutputs(foWorkers)) : mx[m].pc = "done"
    /\ mergedCloses = 1

\* C14: once cancellation has fired, every fan-out worker and every fan-in
\* reader eventually terminates and the merged stream is eventually closed,
\* also when the input is never closed and the consumer has stopped reading.
C14_CancelTerminatesFanOutFanIn == cancelled ~> FanAllTerminated

C14_Witness ==
    /\ cancelled
    /\ ~foInputCloses
    /\ ~foInputClosed
    /\ fcPc = "stopped"
    /\ foWorkers = MaxFan
    /\ Len(merged) < foNext - 1
    /\ FanAllTerminated

\* C15: the token count stays within 0..C; the refill goroutine's handling of a
\* tick adds exactly one token below capacity and none at capacity; and a tick
\* can always be handled, whatever the bucket holds.
C15_TokensWithinCapacity ==
    /\ [](tokens \in 0 .. rlCap)
    /\ [][(tickPending /\ ~tickPending')
             => tokens' = (IF tokens < rlCap THEN tokens + 1 ELSE tokens)]_vars
    /\ []((refillPc = "run" /\ tickPending /\ ~rlPanicked) => ENABLED RefillOnTick)

C15_Witness ==
    /\ rlCap = MaxRate
    /\ ticks = MaxTicks
    /\ ~tickPending
    /\ okCount = 0
    /\ \A k \in CallerIds : wt[k].pc = "idle"
    /\ tokens = rlCap

\* C16: the number of Wait calls that have returned success is at most C plus
\* the number of ticks fired.
C16_SuccessesBoundedByTicks == okCount <= rlCap + ticks

C16_Witness ==
    /\ ticks > 0
    /\ okCount = rlCap + ticks

\* the Wait calls that hold a token they took and have not returned yet
Holding == {k \in CallerIds : wt[k].pc = "got"}

\* C17: the bucket holds C tokens at construction; before any tick fires it
\* holds C minus the tokens taken, a Wait call can take a token while fewer
\* than C were taken, and with a live context no Wait call fails.
C17_InitialBurst ==
    /\ ticks = 0 => tokens = rlCap - (okCount + Cardinality(Holding))
    /\ \A k \in CallerIds :
          (/\ ticks = 0
           /\ ~rlPanicked
           /\ wt[k].pc = "waiting"
           /\ okCount + Cardinality(Holding) < rlCap) => ENABLED WaitTakeToken(k)
    /\ ~cancelled => (errCount = 0 /\ \A k \in CallerIds : wt[k].pc # "err")

C17_Witness ==
    /\ ticks = 0
    /\ ~cancelled
    /\ rlCap = MaxRate
    /\ okCount = rlCap
    /\ tokens = 0

\* C18: a Wait call made with an already cancelled context never takes a token.
C18_CancelledWaitTakesNoToken ==
    [][\A k \in CallerIds :
          (wt[k].pc = "waiting" /\ wt[k].ctxDone) => wt'[k].pc # "got"]_vars

\* C19: a Wait call either takes exactly one token and returns success, or
\* takes none and returns the cancellation error; every step of a call moves
\* the token count and the outcome counters accordingly.
C19_WaitOutcomes ==
    [][\A k \in CallerIds : wt[k].pc # wt'[k].pc =>
          \/ /\ wt[k].pc = "idle" /\ wt'[k].pc = "waiting"
             /\ tokens' = tokens /\ okCount' = okCount /\ errCount' = errCount
          \/ /\ wt[k].pc = "waiting" /\ wt'[k].pc = "got"
             /\ tokens' = tokens - 1 /\ okCount' = okCount /\ errCount' = errCount
          \/ /\ wt[k].pc = "waiting" /\ wt'[k].pc = "err"
             /\ tokens' = tokens /\ okCount' = okCount /\ errCount' = errCount
          \/ /\ wt[k].pc = "got" /\ wt'[k].pc = "idle"
             /\ tokens' = tokens /\ okCount' = okCount + 1 /\ errCount' = errCount
          \/ /\ wt[k].pc = "err" /\ wt'[k].pc = "idle"
             /\ tokens' = tokens /\ okCount' = okCount /\ errCount' = errCount + 1]_vars

C19_Witness ==
    /\ okCount >= 1
    /\ errCount >= 1
    /\ tokens < rlCap

\* C20 as stated: a Wait call made after Stop returns only with a cancelled
\* context.
C20_PostStopWaitNeverReturns ==
    [][\A k \in CallerIds :
          (wt[k].afterStop /\ wt[k].pc # "idle" /\ wt'[k].pc = "idle")
              => cancelled]_vars

\* C20 as amended: a Wait call made after Stop leaves its select with a live
\* context only by taking a token out of the bucket, and with the error only
\* when the context is cancelled; once the refill goroutine has terminated and
\* the bucket is empty, the bucket stays empty and no Wait call with a live
\* context leaves its select.
C20_PostStopWaitNeedsToken ==
    /\ [][\A k \in CallerIds :
             (wt[k].afterStop /\ wt[k].pc = "waiting" /\ wt'[k].pc # "waiting")
                 => \/ wt'[k].pc = "got" /\ tokens > 0 /\ tokens' = tokens - 1
                    \/ wt'[k].pc = "err" /\ cancelled /\ tokens' = tokens]_vars
    /\ [][(refillPc = "done" /\ tokens = 0) => tokens' = 0]_vars
    /\ [][(refillPc = "done" /\ tokens = 0 /\ ~cancelled)
             => \A k \in CallerIds :
                   wt[k].pc = "waiting" => wt'[k].pc = "waiting"]_vars

C20_Witness ==
    /\ ~cancelled
    /\ refillPc = "done"
    /\ tokens = 0
    /\ \E k \in CallerIds : wt[k].afterStop /\ wt[k].pc = "got"
    /\ \E k \in CallerIds : wt[k].afterStop /\ wt[k].pc = "waiting"

\* C21: after Stop has returned the token count never increases again, and
\* the refill goroutine eventually terminates.
C21_StopHaltsRefill ==
    /\ [][rlDoneCloses > 0 => tokens' <= tokens]_vars
    /\ rlDoneCloses > 0 ~> (refillPc = "done" \/ rlPanicked)

\* the messages 1 .. n in send order
FirstMessages(n) == [k \in 1 .. n |-> k]

\* only sender 1 has called Send, with a live context, over a registry that
\* has not changed since its first call, and every registered buffer holds
\* all the messages sent
OneSenderFixedRegistry ==
    /\ \A s \in SenderIds \ {1} : sd[s].pc = "idle"
    /\ ~regChanged
    /\ ~cancelled
    /\ \A c \in Registered : bcChans[c].cap >= bcSent

\* C22: with a single sender issuing its Send calls one after another, every
\* subscriber registered for the whole sequence with a buffer of at least N
\* slots is delivered all N messages in send order, and every Send returns
\* success.
C22_AllSubscribersReceiveInOrder ==
    OneSenderFixedRegistry =>
        /\ sd[1].pc = "done" =>
              /\ sd[1].outcome = "nil"
              /\ \A c \in Registered : bcChans[c].log = FirstMessages(bcSent)
        /\ sd[1].pc = "iter" =>
              \A c \in Registered :
                 bcChans[c].log = FirstMessages(IF c \in sd[1].todo THEN bcSent - 1
                                                                    ELSE bcSent)

C22_Witness ==
    /\ OneSenderFixedRegistry
    /\ sd[1].pc = "done"
    /\ bcSent = MaxMsgs
    /\ Cardinality(Registered) = MaxSubs
    /\ \A c \in Registered : bcChans[c].taken = MaxMsgs

\* C23: when Send returns the capacity error, every subscriber registered
\* during the call has been delivered the message, or has its channel closed,
\* or is itself full: no subscriber with free buffer space is left out.
C23_FullSubscriberDoesNotAbortDelivery ==
    [][\A s \in SenderIds :
          (sd[s].pc = "iter" /\ sd'[s].pc = "done" /\ sd'[s].outcome = "full")
              => \A c \in Registered :
                    c \notin sd[s].todo \/ IsClosed(c) \/ IsFull(c)]_vars

\* the steps Send can take between RLock and its return
SendStep(s) ==
    \/ \E c \in 1 .. MaxChans : SendDeliver(s, c) \/ SendCancelled(s, c) \/ SendOnFull(s, c)
    \/ SendReturnNil(s)

\* C24: a Send call that holds the read lock can always take its next step; it
\* attempts each registered subscriber at most once; and with a live context it
\* returns the capacity error exactly when the subscriber it attempts is full,
\* and success when no subscriber is left to attempt.
C24_SendNeverBlocks ==
    /\ [](\A s \in SenderIds : (sd[s].pc = "iter" /\ ~bcPanicked) => ENABLED SendStep(s))
    /\ [](\A c \in ChanIds : \A k \in 1 .. Len(bcChans[c].log) :
             CountIn(bcChans[c].log[k], bcChans[c].log) = 1)
    /\ [][\A s \in SenderIds :
             (sd[s].pc = "iter" /\ sd'[s].pc = "iter") => sd'[s].todo \subseteq sd[s].todo]_vars
    /\ [][\A s \in SenderIds :
             (sd[s].pc = "iter" /\ sd'[s].pc = "done" /\ ~cancelled)
                 => \/ /\ sd'[s].outcome = "full"
                       /\ \E c \in sd[s].todo : IsFull(c)
                    \/ /\ sd'[s].outcome = "nil"
                       /\ sd[s].todo = {}]_vars

C24_Witness ==
    /\ ~cancelled
    /\ \E s \in SenderIds : sd[s].pc = "done" /\ sd[s].outcome = "full"
    /\ \E s \in SenderIds : sd[s].pc = "done" /\ sd[s].outcome = "nil"

\* C25: Unsubscribe leaves the subscriber's channel closed and out of the
\* registry; a closed channel is in no Send call's range and no message is
\* delivered to it any more, while Send goes on delivering to the others.
C25_UnsubscribedStreamClosed ==
    /\ [](\A c \in ChanIds : IsClosed(c) =>
             /\ c \notin Registered
             /\ \A s \in SenderIds : c \notin sd[s].todo)
    /\ [][\A id \in SubIds :
             (registry[id] # 0 /\ registry'[id] = 0)
                 => bcChans'[registry[id]].closes = 1]_vars
    /\ [][\A c \in ChanIds : IsClosed(c) => bcChans'[c].log = bcChans[c].log]_vars

C25_Witness ==
    /\ ~bcShut
    /\ ~bcPanicked
    /\ \E c \in ChanIds, d \in Registered, s \in SenderIds :
          /\ IsClosed(c)
          /\ Len(Buffered(c)) > 0
          /\ sd[s].pc = "done"
          /\ sd[s].outcome = "nil"
          /\ Len(bcChans[d].log) > Len(bcChans[c].log)

\* C26: no goroutine panics on a closed channel: every channel a Send call
\* still has to visit is registered and open, and while a Send call holds the
\* read lock no channel is closed and the registry does not change.  Several
\* Send calls may hold the read lock together.
C26_NoSendOnClosedChannel ==
    /\ [](~bcPanicked)
    /\ [](\A s \in ReadLocked : \A c \in sd[s].todo : c \in Registered /\ ~IsClosed(c))
    /\ [][ReadLocked # {} =>
             /\ registry' = registry
             /\ Len(bcChans') = Len(bcChans)
             /\ \A c \in ChanIds : bcChans'[c].closes = bcChans[c].closes]_vars

C26_Witness ==
    /\ Cardinality(ReadLocked) >= 2
    /\ \E c \in ChanIds : IsClosed(c)
    /\ \E s \in ReadLocked : sd[s].todo # {}

\* every Subscribe call so far used an id of its own
DistinctIds == \A c, d \in ChanIds : c # d => bcChans[c].id # bcChans[d].id

\* C27: no channel is closed twice; when every Subscribe used an id of its own,
\* a channel is open while it is registered and closed exactly once from then
\* on; and Close closes every registered channel, touches no other and leaves
\* the registry empty.
C27_CloseClosesEachChannelOnce ==
    /\ [](\A c \in ChanIds : bcChans[c].closes <= 1)
    /\ [](DistinctIds =>
             \A c \in ChanIds : bcChans[c].closes = (IF c \in Registered THEN 0 ELSE 1))
    /\ [][(~bcShut /\ bcShut') =>
             /\ \A id \in SubIds : registry'[id] = 0
             /\ \A c \in ChanIds :
                   bcChans'[c].closes = bcChans[c].closes + (IF c \in Registered THEN 1 ELSE 0)]_vars

C27_Witness ==
    /\ bcShut
    /\ DistinctIds
    /\ Len(bcChans) = MaxChans
    /\ Registered = {}
    /\ \A c \in ChanIds : bcChans[c].closes = 1
    /\ \E c \in ChanIds : Len(Buffered(c)) > 0

\* C28: the results stream is closed only after every worker goroutine has
\* exited: a worker about to publish never finds it closed, and every
\* worker-function invocation that was started has returned and has its outcome
\* on the stream by the time the stream is closed.
C28_ResultsClosedAfterWorkersExit ==
    /\ resultsClosed =>
          /\ wg = 0
          /\ AllWorkersExited
          /\ \A j \in JobIds : invoked[j] > 0 =>
                /\ returned[j] # "none"
                /\ CountJob(Published, j) = invoked[j]
    /\ \A i \in WorkerIds : wpc[i] \in {"work", "send"} => ~resultsClosed

C28_Witness ==
    /\ resultsClosed
    /\ cancelled
    /\ workers = MaxWorkers
    /\ Len(Published) >= 2
    /\ Len(jobs) > 0

\* worker-function invocations that have returned
Completed == Cardinality({j \in JobIds : returned[j] # "none"})

RECURSIVE SumTo(_, _)
SumTo(f, n) == IF n = 0 THEN 0 ELSE f[n] + SumTo(f, n - 1)

\* jobs taken off the jobs queue by a worker
Dequeued == SumTo(invoked, MaxJobs)

\* the pool is at rest: Start has run and every worker goroutine has returned
Quiescent == started /\ AllWorkersExited

\* C29: results emitted <= invocations completed <= jobs dequeued <= jobs
\* submitted; and when the pool is quiescent the results emitted are those of
\* the invocations that completed before cancellation fired: all of the
\* completed ones when none completed after it, fewer otherwise.
C29_ResultCounts ==
    /\ Len(Published) <= Completed
    /\ Completed <= Dequeued
    /\ Dequeued <= submitted
    /\ Quiescent => IF lateReturn THEN Len(Published) < Completed
                                  ELSE Len(Published) = Completed

\* the output streams FanOut has returned
FanOutStreams == {w \in FanIds : fw[w].pc # "idle"}

\* C30: FanOut returns exactly N output streams; each of them is closed once,
\* when its worker returns, and the merged stream once, after every reader has
\* returned; no goroutine is about to write, or writes, to a stream that is
\* closed.
C30_StreamsClosedOnce ==
    /\ foPhase # "new" => Cardinality(FanOutStreams) = foWorkers
    /\ \A w \in FanIds : outCloses[w] = (IF fw[w].pc = "done" THEN 1 ELSE 0)
    /\ mergedCloses = (IF closerPc = "done" THEN 1 ELSE 0)
    /\ mergedCloses > 0 => \A m \in FanIds : mx[m].pc \notin {"recv", "send"}
    /\ \A w \in FanIds : fw[w].pc = "send" => outCloses[w] = 0

C30_Witness ==
    /\ cancelled
    /\ foInputClosed
    /\ foWorkers = MaxFan
    /\ Len(merged) > 0
    /\ mergedCloses = 1
    /\ \A w \in FanIds : outCloses[w] = 1

\* C31: with one worker and no cancellation, FanIn(FanOut(input, 1, fn)) delivers
\* fn(x) in input order: what the consumer holds is at every moment a prefix of
\* fn applied to the input, item by item.  With two or more workers no such
\* order holds: C31_Witness is a run that delivers fn(2) before fn(1).
C31_SingleWorkerKeepsOrder ==
    (foWorkers = 1 /\ ~cancelled) => IsPrefix(merged, FanExpected)

\* two workers, no cancellation: fn(2) = 4 was delivered before fn(1) = 1
C31_Witness ==
    /\ foWorkers >= 2
    /\ ~cancelled
    /\ merged = <<Square(2), Square(1)>>
    /\ foItems[1] = 1 /\ foItems[2] = 2
    /\ fcPc = "done"

\* C32: a Send call made with an already-cancelled context delivers the message
\* to no subscriber and returns the cancellation outcome, also when every
\* subscriber has free buffer space.
C32_CancelledSendDeliversNothing ==
    [][\A s \in SenderIds :
          (sd[s].pc = "iter" /\ sd[s].ctxDone) =>
              /\ sd'[s].pc = "iter" => sd'[s].todo = sd[s].todo
              /\ sd'[s].pc = "done" => sd'[s].outcome = "cancelled"]_vars

\* the input items the workers have taken from the input channel
FanConsumed == 1 .. foNext - 1

\* C33: whatever the cancellation does, an input item can be lost but not
\* duplicated: the values delivered on the merged stream are no more than the
\* values the workers took, which are no more than the values sent on the input;
\* every item is transformed at most once; and every delivered value is fn of a
\* consumed item, delivered no more often than that item was consumed.
C33_LostButNeverDuplicated ==
    /\ Len(merged) <= Cardinality(FanConsumed)
    /\ Cardinality(FanConsumed) <= Len(foItems)
    /\ \A k \in 1 .. MaxItems : transformed[k] = (IF k \in FanConsumed THEN 1 ELSE 0)
    /\ \A i \in 1 .. Len(merged) :
          CountIn(merged[i], merged)
              <= Cardinality({k \in FanConsumed : Square(foItems[k]) = merged[i]})

\* cancellation fired, everything has terminated, one value was delivered and
\* another one, taken from the input, was lost
C33_Witness ==
    /\ cancelled
    /\ FanAllTerminated
    /\ Len(merged) >= 1
    /\ Len(merged) < Cardinality(FanConsumed)

\* the ticks the refill goroutine has handled
TicksHandled == ticks - (IF tickPending THEN 1 ELSE 0)

\* the callers whose Wait takes a token in the step
Released == {k \in CallerIds : wt[k].pc = "waiting" /\ wt'[k].pc = "got"}

\* C34: each token admits one caller.  The tokens in the bucket, the tokens held
\* by calls about to return and the successes returned never add up to more than
\* the C initial tokens plus one per handled tick; a step releases at most one
\* waiting caller and takes exactly one token out of a non-empty bucket; and
\* with an empty bucket no waiting caller is released.
C34_OneCallerPerToken ==
    /\ [](tokens + Cardinality(Holding) + okCount <= rlCap + TicksHandled)
    /\ [][Released # {} =>
             /\ Cardinality(Released) = 1
             /\ tokens > 0
             /\ tokens' = tokens - 1]_vars
    /\ [](tokens = 0 => \A k \in CallerIds : ~ENABLED WaitTakeToken(k))

\* the initial token is spent, two callers waited on the empty bucket, one tick
\* was handled: one caller holds its token and the other is still waiting
C34_Witness ==
    /\ ~cancelled /\ rlDoneCloses = 0
    /\ rlCap = 1 /\ okCount = 1
    /\ ticks = 1 /\ ~tickPending
    /\ tokens = 0
    /\ \E k \in CallerIds : wt[k].pc = "got"
    /\ \E k \in CallerIds : wt[k].pc = "waiting"

\* C35: Send calls run at the same time under the shared read lock and no common
\* delivery order is imposed.  A sender holding the read lock does not keep
\* another sender from starting its Send call, and when two senders both have
\* a subscriber with free buffer space still to serve, either of them can
\* deliver to it next.  C35_Witness is a run in which one subscriber got m1
\* before m2 and the other m2 before m1.
C35_ConcurrentSendsUnordered ==
    /\ \A s, t \in SenderIds :
          (s # t /\ sd[s].pc = "iter" /\ sd[t].pc # "iter"
                 /\ bcSent < MaxMsgs /\ ~bcPanicked)
              => ENABLED SendCall(t)
    /\ \A s, t \in SenderIds : \A c \in ChanIds :
          (s # t /\ c \in sd[s].todo /\ c \in sd[t].todo
                 /\ sd[s].pc = "iter" /\ sd[t].pc = "iter"
                 /\ ~IsFull(c) /\ ~bcPanicked)
              => ENABLED SendDeliver(s, c) /\ ENABLED SendDeliver(t, c)

\* two subscribers with room for both messages: one holds m1, m2 and the other
\* m2, m1, and both Send calls returned success
C35_Witness ==
    /\ ~cancelled
    /\ \A s \in {1, 2} : sd[s].pc = "done" /\ sd[s].outcome = "nil"
    /\ \E c, d \in ChanIds :
          /\ c \in Registered /\ d \in Registered
          /\ bcChans[c].log = <<1, 2>>
          /\ bcChans[d].log = <<2, 1>>

\* the channels a later Subscribe with the same id took out of the registry:
\* open and held by no registry entry
Orphaned == {c \in ChanIds : c \notin Registered /\ ~IsClosed(c)}

\* C36: Subscribe with a registered id puts a new channel in the registry entry
\* and leaves the old channel open; from then on the old channel is in no Send
\* call's range, receives no further message and is never closed, whatever
\* Unsubscribe and Close calls follow.
C36_ResubscribeOrphansOldChannel ==
    /\ [][\A id \in SubIds :
             (registry[id] # 0 /\ registry'[id] \notin {0, registry[id]})
                 => /\ registry'[id] = Len(bcChans) + 1
                    /\ bcChans'[registry'[id]].closes = 0
                    /\ bcChans'[registry'[id]].log = <<>>
                    /\ registry[id] \in Orphaned']_vars
    /\ [](\A c \in Orphaned : \A s \in SenderIds : c \notin sd[s].todo)
    /\ [][\A c \in Orphaned :
             /\ c \in Orphaned'
             /\ bcChans'[c].log = bcChans[c].log]_vars

\* id 1 subscribed, got m1, subscribed again, the new channel got m2, and Close
\* closed the new channel: the old one holds m1 only and is still open
C36_Witness ==
    /\ Len(bcChans) = 2
    /\ bcChans[1].id = bcChans[2].id
    /\ bcChans[1].log = <<1>> /\ bcChans[1].closes = 0
    /\ bcChans[2].log = <<2>> /\ bcChans[2].closes = 1
    /\ bcShut
    /\ ~bcPanicked

\* C37: Unsubscribe with an id that is not in the registry changes nothing, and
\* Unsubscribe leaves its id out of the registry without a panic, so that a
\* second Unsubscribe of the same id is that no-op: no channel is closed twice.
C37_UnsubscribeIdempotent ==
    /\ [][\A id \in SubIds :
             (Unsubscribe(id) /\ registry[id] = 0) => UNCHANGED vars]_vars
    /\ [][\A id \in SubIds :
             Unsubscribe(id) => registry'[id] = 0 /\ ~bcPanicked']_vars
    /\ [](\A c \in ChanIds : bcChans[c].closes <= 1)

\* id 1 was subscribed, received a message and was unsubscribed; its channel is
\* closed once and a further Unsubscribe of id 1 can run
C37_Witness ==
    /\ Len(bcChans) >= 1
    /\ bcChans[1].id = 1
    /\ bcChans[1].closes = 1
    /\ bcChans[1].log # <<>>
    /\ registry[1] = 0
    /\ ~bcShut
    /\ ENABLED Unsubscribe(1)

\* C38: Stop is not idempotent.  The first Stop closes the done signal without
\* a panic; once the done signal is closed, a Stop call can run and every Stop
\* call that runs panics; and nothing else makes the rate limiter panic.
C38_SecondStopPanics ==
    /\ [][(rlDoneCloses = 0 /\ rlDoneCloses' # 0) =>
             rlDoneCloses' = 1 /\ ~rlPanicked']_vars
    /\ []((rlDoneCloses > 0 /\ ~rlPanicked) =>
             /\ ENABLED Stop
             /\ ~ENABLED (Stop /\ ~rlPanicked'))
    /\ [](rlPanicked => rlDoneCloses = 1)
    /\ [][(~rlPanicked /\ rlPanicked') => Stop]_vars

\* Stop was called twice: the done signal is closed and the process panicked
C38_Witness ==
    /\ rlPanicked
    /\ rlDoneCloses = 1

\* C39: Close leaves the registry empty and the broadcaster usable.  Every Send
\* call ranges over the registry as it is when the call starts; a call that
\* finds it empty can only return success and delivers nothing; a Subscribe
\* after Close registers a new, open, empty channel; and a Send call delivers
\* to every open channel with free space it has in its range, so also to that
\* one.
C39_UsableAfterClose ==
    /\ [][Close => Registered' = {}]_vars
    /\ [][\A s \in SenderIds :
             (sd[s].pc # "iter" /\ sd'[s].pc = "iter") => sd'[s].todo = Registered]_vars
    /\ [][\A s \in SenderIds :
             (sd[s].pc = "iter" /\ sd[s].todo = {} /\ sd'[s] # sd[s])
                 => /\ sd'[s] = Returned("nil")
                    /\ bcChans' = bcChans]_vars
    /\ [](\A s \in SenderIds :
             (sd[s].pc = "iter" /\ sd[s].todo = {} /\ ~bcPanicked)
                 => ENABLED SendReturnNil(s))
    /\ [][(bcShut /\ Len(bcChans') > Len(bcChans)) =>
             /\ Len(bcChans') \in Registered'
             /\ bcChans'[Len(bcChans')].closes = 0
             /\ bcChans'[Len(bcChans')].log = <<>>]_vars
    /\ [](\A s \in SenderIds : \A c \in ChanIds :
             (sd[s].pc = "iter" /\ c \in sd[s].todo /\ ~bcPanicked)
                 => /\ ~IsClosed(c)
                    /\ ~IsFull(c) => ENABLED SendDeliver(s, c))

\* a channel was registered and Close closed it before any message reached it;
\* m1 was sent to nobody; then a Subscribe made a second channel, and the Send
\* of m2 delivered to it and returned success
C39_Witness ==
    /\ bcShut /\ ~cancelled /\ ~bcPanicked
    /\ Len(bcChans) = 2
    /\ bcChans[1].closes = 1 /\ bcChans[1].log = <<>>
    /\ bcChans[2].closes = 0 /\ bcChans[2].log = <<2>>
    /\ Registered = {2}
    /\ \E s \in SenderIds : sd[s] = Returned("nil")

\* C40: FanIn called with no inputs starts no multiplex goroutine and waits for
\* none, so nothing is ever delivered on the stream it returns; the closing
\* goroutine eventually closes that stream and ends, and a consumer ranging
\* over it eventually sees it closed.
C40_FanInOfNothingCloses ==
    /\ [](foWorkers = 0 =>
             /\ merged = <<>>
             /\ fiWg = 0
             /\ \A m \in FanIds : mx[m].pc = "idle" /\ fw[m].pc = "idle")
    /\ (foWorkers = 0 /\ foPhase = "fannedIn")
          ~> (closerPc = "done" /\ mergedCloses = 1)
    /\ (foWorkers = 0 /\ foPhase = "fannedIn") ~> (fcPc \in {"done", "stopped"})

\* no workers, no cancellation: the merged stream of no inputs is closed and the
\* consumer's range over it has ended with nothing received
C40_Witness ==
    /\ foWorkers = 0
    /\ ~cancelled
    /\ foPhase = "fannedIn"
    /\ closerPc = "done" /\ mergedCloses = 1
    /\ fcPc = "done"
    /\ merged = <<>>

====
